---- MODULE Spec2Model ----
(***************************************************************************)
(* Project planner MCP servers of Nagpal45/mcpServer.                      *)
(*                                                                         *)
(*   remote : src/remote-mcp/src/index.ts  (single-tenant, class MyMCP)    *)
(*   auth   : src/unnamed/part_000, lines 192-530 (per-owner, class MyMCP) *)
(*                                                                         *)
(* Both keep projects and todos as JSON text in a Workers KV namespace and *)
(* keep the membership lists as JSON arrays under derived keys.  A tool    *)
(* handler is a sequence of awaited kv.get / kv.put / kv.delete calls; one *)
(* action of the model is one such call together with the synchronous code *)
(* around it, so that handlers of different requests interleave exactly at *)
(* the awaits.  Keys are the strings the code builds.                      *)
(***************************************************************************)
EXTENDS Integers, Sequences, FiniteSets, TLC

(* ------------------------------ bounds -------------------------------- *)

\* How many ids crypto.randomUUID() hands out in one behaviour.
MaxUuids == 3

\* The ids crypto.randomUUID() returns, in the order it returns them.
UuidPool == <<"u1", "u2", "u3", "u4", "u5", "u6">>

\* The last millisecond the clock reaches in one behaviour.
MaxNow == 1

\* The requests that may be in flight at once are numbered.
Procs == {1, 2}

(* --------------------------- JSON and the KV --------------------------- *)

\* What kv.get resolves to for a key that is not stored.
NULL == [json |-> "null"]

\* An optional tool argument that was not supplied.
NONE == "undefined"

\* JSON.stringify of a string[]: the text of an array.
JSONstringifyArray(list) == [json |-> "array", items |-> list]

\* JSON.stringify of a Project or a Todo: the text of an object.
JSONstringifyObject(obj) == [json |-> "object", fields |-> obj]

\* JSON.parse
JSONparse(text) == IF text.json = "array" THEN text.items ELSE text.fields

\* `x ? a : b` on a kv.get result: null is falsy, every stored text is a
\* non-empty string and so truthy ("[]" included).
Truthy(text) == text.json # "null"

KvGet(store, key) == IF key \in DOMAIN store THEN store[key] ELSE NULL

KvPut(store, key, text) ==
  [k \in DOMAIN store \cup {key} |-> IF k = key THEN text ELSE store[k]]

KvDelete(store, key) == [k \in DOMAIN store \ {key} |-> store[k]]

\* A filter that removes nothing.
FilterOutNothing(list, x) == list

\* A filter that removes everything.
FilterOutAll(list, x) == <<>>

\* Array.prototype.filter((id) => id !== x)
FilterOut(list, x) == SelectSeq(list, LAMBDA id : id # x)

\* A push at the front: Array.prototype.unshift(x).
Unshift(list, x) == <<x>> \o list

\* An assignment that is not guarded by `!== undefined`.
SuppliedAlways(x, old) == x

\* A push that is lost.
PushNothing(list, x) == list

\* Array.prototype.push(x)
Push(list, x) == Append(list, x)

(* -------------------------------- keys -------------------------------- *)

RemoteProjectListKey == "project:list"

\* A project key that leaves the id out.
RemoteProjectKeyShared(projectId) == "project:"

RemoteProjectKey(projectId) == "project:" \o projectId
RemoteTodoListKey(projectId) == "project:" \o projectId \o ":todos"
RemoteTodoKey(todoId) == "todo:" \o todoId

\* A project key that leaves the owner out.
AuthProjectKeyShared(login, projectId) == "project:" \o projectId

AuthProjectListKey(login) == "project:user-" \o login \o ":list"
AuthProjectKey(login, projectId) == "project:" \o projectId \o ":user-" \o login
\* the key getTodoList reads
AuthTodoListReadKey(login, projectId) ==
  "project:" \o projectId \o ":user-" \o login \o ":todos"
\* the key create_todo and delete_todo write
AuthTodoListWriteKey(login, projectId) ==
  "project:" \o projectId \o ":todos:user-" \o login
\* the key delete_project deletes
AuthTodoListDeleteKey(login, projectId) ==
  "project:" \o projectId \o ":user-" \o login \o ":todos"
AuthTodoKey(login, todoId) == "todo:" \o todoId \o ":user-" \o login

(* ------------------------------- state -------------------------------- *)

VARIABLES
  kv,      \* the KV namespace: stored key -> stored text
  uuids,   \* how many ids crypto.randomUUID() has returned
  now,     \* the clock new Date() reads, in milliseconds
  call,    \* per request in flight: the handler, its arguments and locals
  hist,    \* what the completed calls returned (history, not program state)
  deploy   \* the deployment: which server, its allow-list, who calls

vars == <<kv, uuids, now, call, hist, deploy>>


\* The key of the project index list, as the server in use builds it.
ProjectListKey(login) ==
  IF deploy.server = "auth" THEN AuthProjectListKey(login) ELSE RemoteProjectListKey

ProjectKey(login, projectId) ==
  IF deploy.server = "auth" THEN AuthProjectKey(login, projectId)
  ELSE RemoteProjectKey(projectId)

TodoKey(login, todoId) ==
  IF deploy.server = "auth" THEN AuthTodoKey(login, todoId) ELSE RemoteTodoKey(todoId)

\* getTodoList's key
TodoListReadKey(login, projectId) ==
  IF deploy.server = "auth" THEN AuthTodoListReadKey(login, projectId)
  ELSE RemoteTodoListKey(projectId)

\* the key create_todo and delete_todo put the list under
TodoListWriteKey(login, projectId) ==
  IF deploy.server = "auth" THEN AuthTodoListWriteKey(login, projectId)
  ELSE RemoteTodoListKey(projectId)

\* the key delete_project deletes
TodoListDeleteKey(login, projectId) ==
  IF deploy.server = "auth" THEN AuthTodoListDeleteKey(login, projectId)
  ELSE RemoteTodoListKey(projectId)

\* getProjectList / getTodoList: `listData ? JSON.parse(listData) : []`
LoadList(store, key) ==
  IF Truthy(KvGet(store, key)) THEN JSONparse(KvGet(store, key)) ELSE <<>>

(* ------------------------------ records ------------------------------- *)

\* `createdAt: new Date()..., updatedAt: new Date()...`: two readings of the
\* clock, the second never before the first.
NewProject(id, name, description, createdAt, updatedAt) ==
  [id |-> id, name |-> name, description |-> description,
   createdAt |-> createdAt, updatedAt |-> updatedAt]

\* A default that replaces the argument even when one was supplied.
OrDefaultAlways(x, default) == default

\* `description || ""` and `priority || "medium"`: undefined and "" are falsy.
OrDefault(x, default) == IF x = NONE \/ x = "" THEN default ELSE x

NewTodo(id, projectId, title, description, priority, createdAt, updatedAt) ==
  [id |-> id, projectId |-> projectId, title |-> title,
   description |-> OrDefault(description, ""), status |-> "pending",
   priority |-> OrDefault(priority, "medium"),
   createdAt |-> createdAt, updatedAt |-> updatedAt]

\* `if (x !== undefined) todo.f = x`
Supplied(x, old) == IF x # NONE THEN x ELSE old

UpdatedTodo(todo, title, description, status, priority, t) ==
  [todo EXCEPT !.title = Supplied(title, @),
               !.description = Supplied(description, @),
               !.status = Supplied(status, @),
               !.priority = Supplied(priority, @),
               !.updatedAt = t]

NoTodo == NewTodo("", "", "", NONE, NONE, 0, 0)

(* ------------------------------ requests ------------------------------ *)

\* No request: the locals of a handler that is not running.
IdleCall ==
  [op |-> "none", pc |-> "idle", login |-> "",
   projectId |-> "", todoId |-> "", name |-> "", title |-> "",
   description |-> NONE, status |-> NONE, priority |-> NONE,
   newId |-> "", data |-> NULL, list |-> <<>>, i |-> 0, acc |-> <<>>,
   todo |-> NoTodo, res |-> "", val |-> [none |-> TRUE]]

\* A handler that returned (res = "ok") or threw (res = "NotFound"): its
\* arguments and its response stay readable until the response is sent.
Returned(c, res, val) ==
  [IdleCall EXCEPT !.op = c.op, !.pc = "done", !.login = c.login,
                   !.projectId = c.projectId, !.todoId = c.todoId,
                   !.name = c.name, !.title = c.title,
                   !.description = c.description, !.status = c.status,
                   !.priority = c.priority, !.res = res, !.val = val]

NotFound(c, what) == Returned(c, "NotFound", [error |-> what])

\* The ids crypto.randomUUID() has returned so far.
Generated == {UuidPool[n] : n \in 1..uuids}

\* crypto.randomUUID(): the next id of the pool.
RandomUUID == UuidPool[uuids + 1]

\* An id that no create call returned and that no key is derived from.
FreshId == "fresh"

\* Strings a caller sends as an id to reach the keys of another login: an
\* id with an owner suffix, and the owner prefix of the project list.
ForeignIds(ids) ==
  {u \o ":user-" \o login : u \in ids, login \in deploy.logins}
  \cup {"user-" \o login : login \in deploy.logins}

\* projectId arguments a caller sends: ids it was given, an id it made up,
\* and strings that are not ids at all (deploy.ids = "any": those that make
\* the remote server's keys collide; "owners": those that name another login).
ProjectIdArgs ==
  Generated \cup {FreshId} \cup
  (IF deploy.ids = "any"
   THEN {"list"} \cup {u \o ":todos" : u \in hist.createdProjects}
   ELSE IF deploy.ids = "owners" THEN ForeignIds(hist.createdProjects)
   ELSE {})

TodoIdArgs ==
  Generated \cup {FreshId} \cup
  (IF deploy.ids = "owners" THEN ForeignIds({t[1] : t \in hist.createdTodos})
   ELSE {})

ProjectNames == {"Launch"}
ProjectDescriptions == {"Q1 launch"}
TodoTitles == {"Write copy"}

\* The optional arguments of create_todo: left out, or supplied (also as the
\* empty string) when deploy.fields = "create".
OptDescriptions == IF deploy.fields = "create" THEN {NONE, "", "draft"} ELSE {NONE}
OptPriorities == IF deploy.fields = "create" THEN {NONE, "high"} ELSE {NONE}

\* The optional arguments of update_todo: each left out or supplied when
\* deploy.fields = "update", a title and a status each left out or supplied
\* when deploy.fields = "merge", only a status otherwise.
OptTitles ==
  IF deploy.fields \in {"update", "merge"} THEN {NONE, "Edit copy"} ELSE {NONE}
NewDescriptions == IF deploy.fields = "update" THEN {NONE, ""} ELSE {NONE}
NewPriorities == IF deploy.fields = "update" THEN {NONE, "high"} ELSE {NONE}
OptStatuses ==
  IF deploy.fields \in {"update", "merge"}
  THEN {NONE, "completed"} ELSE {"completed"}

\* init() without the allow-list test: the tools for every login.
ToolsRegisteredAlways(login) == TRUE

\* init(): the auth server registers its tools only for an allow-listed login;
\* the remote server registers them for everybody.
ToolsRegistered(login) ==
  IF deploy.server = "auth" THEN login \in deploy.allowed ELSE TRUE

\* A request slot is free, and the caller has the tools.
CanStart(p, login) ==
  /\ p \in deploy.procs
  /\ call[p].pc = "idle"
  /\ login \in deploy.logins
  /\ ToolsRegistered(login)

\* By how much the clock may advance between two readings made in one
\* synchronous stretch of a handler.
ClockSteps == IF deploy.clock = "runs" /\ now < MaxNow THEN {0, 1} ELSE {0}

Begin(op, login) == [IdleCall EXCEPT !.op = op, !.login = login]

Running(p, op, pc) == call[p].op = op /\ call[p].pc = pc


SetCall(p, c) == call' = [call EXCEPT ![p] = c]

(* --------------------------- create_project --------------------------- *)

\* randomUUID, build newProject, `await kv.put(project key, newProject)`
CreateProject_PutRecord(p) ==
  \E login \in deploy.logins, name \in ProjectNames,
     description \in ProjectDescriptions, dt \in ClockSteps :
    /\ CanStart(p, login)
    /\ uuids < MaxUuids
    /\ LET id == RandomUUID
           newProject == NewProject(id, name, description, now, now + dt)
           c == [Begin("create_project", login) EXCEPT
                   !.name = name, !.description = description, !.newId = id,
                   !.data = JSONstringifyObject(newProject)]
       IN /\ kv' = KvPut(kv, ProjectKey(login, id), JSONstringifyObject(newProject))
          /\ SetCall(p, [c EXCEPT !.pc = "cp_get_list"])
    /\ uuids' = uuids + 1
    /\ now' = now + dt
    /\ UNCHANGED <<hist, deploy>>

\* `const projectList = await this.getProjectList()`
CreateProject_GetList(p) ==
  /\ Running(p, "create_project", "cp_get_list")
  /\ SetCall(p, [call[p] EXCEPT
                   !.pc = "cp_put_list",
                   !.list = LoadList(kv, ProjectListKey(call[p].login))])
  /\ UNCHANGED <<kv, uuids, now, hist, deploy>>

\* `projectList.push(projectId); await kv.put(list key, projectList)`; return
CreateProject_PutList(p) ==
  /\ Running(p, "create_project", "cp_put_list")
  /\ LET c == call[p]
     IN /\ kv' = KvPut(kv, ProjectListKey(c.login),
                       JSONstringifyArray(Push(c.list, c.newId)))
        /\ SetCall(p, Returned(c, "ok", [project |-> JSONparse(c.data)]))
        /\ hist' = [hist EXCEPT !.createdProjects = @ \cup {c.newId},
                                !.projects = Append(@, JSONparse(c.data)),
                                !.owners = @ \cup {<<c.newId, c.login>>}]
  /\ UNCHANGED <<uuids, now, deploy>>

(* ---------------------------- list_projects --------------------------- *)

\* `const projectList = await this.getProjectList()`
ListProjects_GetList(p) ==
  \E login \in deploy.logins :
    /\ CanStart(p, login)
    /\ LET c == Begin("list_projects", login)
           l == LoadList(kv, ProjectListKey(login))
       IN SetCall(p, IF Len(l) = 0
                     THEN Returned(c, "ok", [projects |-> <<>>])
                     ELSE [c EXCEPT !.pc = "lp_get_record", !.list = l, !.i = 1])
    /\ UNCHANGED <<kv, uuids, now, hist, deploy>>

\* A listing that throws when the record of a listed id is missing.
ListProjects_GetRecordStrict(p) ==
  /\ Running(p, "list_projects", "lp_get_record")
  /\ LET c == call[p]
         data == KvGet(kv, ProjectKey(c.login, c.list[c.i]))
     IN SetCall(p, IF ~Truthy(data) THEN NotFound(c, "Project")
                   ELSE IF c.i = Len(c.list)
                   THEN Returned(c, "ok", [projects |-> Append(c.acc, JSONparse(data))])
                   ELSE [c EXCEPT !.i = c.i + 1, !.acc = Append(c.acc, JSONparse(data))])
  /\ UNCHANGED <<kv, uuids, now, hist, deploy>>

\* one turn of `for (const projectId of projectList)`: get, push if present
ListProjects_GetRecord(p) ==
  /\ Running(p, "list_projects", "lp_get_record")
  /\ LET c == call[p]
         data == KvGet(kv, ProjectKey(c.login, c.list[c.i]))
         acc == IF Truthy(data) THEN Append(c.acc, JSONparse(data)) ELSE c.acc
     IN SetCall(p, IF c.i = Len(c.list)
                   THEN Returned(c, "ok", [projects |-> acc])
                   ELSE [c EXCEPT !.i = c.i + 1, !.acc = acc])
  /\ UNCHANGED <<kv, uuids, now, hist, deploy>>

(* -------------------------- getTodosByProject ------------------------- *)

\* `todos.filter((todo) => todo.status === status)` under `if (status)`
FilterStatus(todos, status) ==
  IF status # NONE THEN SelectSeq(todos, LAMBDA t : t.status = status) ELSE todos

\* What get_project and list_todos return once getTodosByProject resolved.
\* c.data is projectData, the text JSON.parse makes `project` of.
TodosResult(c, todos) ==
  IF c.op = "get_project"
  THEN Returned(c, "ok", [projectData |-> c.data, todos |-> todos])
  ELSE Returned(c, "ok", [todos |-> FilterStatus(todos, c.status)])

\* `const todoIds = await this.getTodoList(projectId)`
TodosByProject_GetList(p) ==
  /\ call[p].pc = "tb_get_list"
  /\ LET c == call[p]
         l == LoadList(kv, TodoListReadKey(c.login, c.projectId))
     IN SetCall(p, IF Len(l) = 0
                   THEN TodosResult(c, <<>>)
                   ELSE [c EXCEPT !.pc = "tb_get_todo", !.list = l, !.i = 1])
  /\ UNCHANGED <<kv, uuids, now, hist, deploy>>

\* one turn of `for (const todoId of todoIds)`: get, push if present
TodosByProject_GetTodo(p) ==
  /\ call[p].pc = "tb_get_todo"
  /\ LET c == call[p]
         data == KvGet(kv, TodoKey(c.login, c.list[c.i]))
         acc == IF Truthy(data) THEN Append(c.acc, JSONparse(data)) ELSE c.acc
     IN SetCall(p, IF c.i = Len(c.list)
                   THEN TodosResult(c, acc)
                   ELSE [c EXCEPT !.i = c.i + 1, !.acc = acc])
  /\ UNCHANGED <<kv, uuids, now, hist, deploy>>

(* ----------------------------- get_project ---------------------------- *)

\* `await kv.get(project key)`; throw if falsy
GetProject_GetRecord(p) ==
  \E login \in deploy.logins, projectId \in ProjectIdArgs :
    /\ CanStart(p, login)
    /\ LET c == [Begin("get_project", login) EXCEPT !.projectId = projectId]
           data == KvGet(kv, ProjectKey(login, projectId))
       IN SetCall(p, IF ~Truthy(data)
                     THEN NotFound(c, "Project")
                     ELSE [c EXCEPT !.pc = "tb_get_list", !.data = data])
    /\ UNCHANGED <<kv, uuids, now, hist, deploy>>

(* ---------------------------- delete_project -------------------------- *)

\* `await kv.get(project key)`; throw if falsy
DeleteProject_GetRecord(p) ==
  \E login \in deploy.logins, projectId \in ProjectIdArgs :
    /\ CanStart(p, login)
    /\ LET c == [Begin("delete_project", login) EXCEPT !.projectId = projectId]
           data == KvGet(kv, ProjectKey(login, projectId))
       IN SetCall(p, IF ~Truthy(data)
                     THEN NotFound(c, "Project")
                     ELSE [c EXCEPT !.pc = "dp_get_todolist"])
    /\ UNCHANGED <<kv, uuids, now, hist, deploy>>

\* A delete_project that does not look for the todos of the project.
DeleteProject_SkipTodos(p) ==
  /\ Running(p, "delete_project", "dp_get_todolist")
  /\ SetCall(p, [call[p] EXCEPT !.pc = "dp_delete_record"])
  /\ UNCHANGED <<kv, uuids, now, hist, deploy>>

\* `const todoIds = await this.getTodoList(projectId)`
DeleteProject_GetTodoList(p) ==
  /\ Running(p, "delete_project", "dp_get_todolist")
  /\ LET c == call[p]
         l == LoadList(kv, TodoListReadKey(c.login, c.projectId))
     IN SetCall(p, IF Len(l) = 0
                   THEN [c EXCEPT !.pc = "dp_delete_record"]
                   ELSE [c EXCEPT !.pc = "dp_delete_todo", !.list = l, !.i = 1])
  /\ UNCHANGED <<kv, uuids, now, hist, deploy>>

\* one turn of `for (const todoId of todoIds) await kv.delete(todo key)`
DeleteProject_DeleteTodo(p) ==
  /\ Running(p, "delete_project", "dp_delete_todo")
  /\ LET c == call[p]
     IN /\ kv' = KvDelete(kv, TodoKey(c.login, c.list[c.i]))
        /\ SetCall(p, IF c.i = Len(c.list)
                      THEN [c EXCEPT !.pc = "dp_delete_record"]
                      ELSE [c EXCEPT !.i = c.i + 1])
  /\ UNCHANGED <<uuids, now, hist, deploy>>

\* `await kv.delete(project key)`
DeleteProject_DeleteRecord(p) ==
  /\ Running(p, "delete_project", "dp_delete_record")
  /\ kv' = KvDelete(kv, ProjectKey(call[p].login, call[p].projectId))
  /\ SetCall(p, [call[p] EXCEPT !.pc = "dp_delete_todolist"])
  /\ UNCHANGED <<uuids, now, hist, deploy>>

\* `await kv.delete(todo list key)`
DeleteProject_DeleteTodoList(p) ==
  /\ Running(p, "delete_project", "dp_delete_todolist")
  /\ kv' = KvDelete(kv, TodoListDeleteKey(call[p].login, call[p].projectId))
  /\ SetCall(p, [call[p] EXCEPT !.pc = "dp_get_list"])
  /\ UNCHANGED <<uuids, now, hist, deploy>>

\* `let projectList = await this.getProjectList()`
DeleteProject_GetList(p) ==
  /\ Running(p, "delete_project", "dp_get_list")
  /\ SetCall(p, [call[p] EXCEPT
                   !.pc = "dp_put_list",
                   !.list = LoadList(kv, ProjectListKey(call[p].login))])
  /\ UNCHANGED <<kv, uuids, now, hist, deploy>>

\* `projectList.filter(...); await kv.put(list key, projectList)`; return
DeleteProject_PutList(p) ==
  /\ Running(p, "delete_project", "dp_put_list")
  /\ LET c == call[p]
     IN /\ kv' = KvPut(kv, ProjectListKey(c.login),
                       JSONstringifyArray(FilterOut(c.list, c.projectId)))
        /\ SetCall(p, Returned(c, "ok", [text |-> "deleted"]))
        /\ hist' = [hist EXCEPT !.deletedProjects = @ \cup {c.projectId}]
  /\ UNCHANGED <<uuids, now, deploy>>


(* ----------------------------- create_todo ---------------------------- *)

\* `await kv.get(project key)`; throw if falsy; randomUUID, build newTodo
CreateTodo_GetProject(p) ==
  \E login \in deploy.logins, projectId \in ProjectIdArgs, title \in TodoTitles,
     description \in OptDescriptions, priority \in OptPriorities,
     dt \in ClockSteps :
    /\ CanStart(p, login)
    /\ LET c == [Begin("create_todo", login) EXCEPT
                   !.projectId = projectId, !.title = title,
                   !.description = description, !.priority = priority]
           data == KvGet(kv, ProjectKey(login, projectId))
       IN IF ~Truthy(data)
          THEN /\ dt = 0
               /\ SetCall(p, NotFound(c, "Project"))
               /\ uuids' = uuids
          ELSE /\ uuids < MaxUuids
               /\ SetCall(p, [c EXCEPT
                    !.pc = "ct_put_record", !.newId = RandomUUID,
                    !.todo = NewTodo(RandomUUID, projectId, title,
                                     description, priority, now, now + dt)])
               /\ uuids' = uuids + 1
    /\ now' = now + dt
    /\ UNCHANGED <<kv, hist, deploy>>

\* `await kv.put(todo key, newTodo)`
CreateTodo_PutRecord(p) ==
  /\ Running(p, "create_todo", "ct_put_record")
  /\ kv' = KvPut(kv, TodoKey(call[p].login, call[p].newId),
                 JSONstringifyObject(call[p].todo))
  /\ SetCall(p, [call[p] EXCEPT !.pc = "ct_get_list"])
  /\ UNCHANGED <<uuids, now, hist, deploy>>

\* `const todoList = await this.getTodoList(projectId)`
CreateTodo_GetList(p) ==
  /\ Running(p, "create_todo", "ct_get_list")
  /\ SetCall(p, [call[p] EXCEPT
       !.pc = "ct_put_list",
       !.list = LoadList(kv, TodoListReadKey(call[p].login, call[p].projectId))])
  /\ UNCHANGED <<kv, uuids, now, hist, deploy>>

\* `todoList.push(todoId); await kv.put(todo list key, todoList)`; return
CreateTodo_PutList(p) ==
  /\ Running(p, "create_todo", "ct_put_list")
  /\ LET c == call[p]
     IN /\ kv' = KvPut(kv, TodoListWriteKey(c.login, c.projectId),
                       JSONstringifyArray(Push(c.list, c.newId)))
        /\ SetCall(p, Returned(c, "ok", [todo |-> c.todo]))
        /\ hist' = [hist EXCEPT !.createdTodos = @ \cup {<<c.newId, c.projectId>>},
                                !.owners = @ \cup {<<c.newId, c.login>>}]
  /\ UNCHANGED <<uuids, now, deploy>>

(* ----------------------------- update_todo ---------------------------- *)

\* `await kv.get(todo key)`; throw if falsy; parse, assign the supplied fields
UpdateTodo_Get(p) ==
  \E login \in deploy.logins, todoId \in TodoIdArgs, title \in OptTitles,
     description \in NewDescriptions, status \in OptStatuses,
     priority \in NewPriorities :
    /\ CanStart(p, login)
    /\ LET c == [Begin("update_todo", login) EXCEPT
                   !.todoId = todoId, !.title = title,
                   !.description = description, !.status = status,
                   !.priority = priority]
           data == KvGet(kv, TodoKey(login, todoId))
       IN SetCall(p, IF ~Truthy(data)
                     THEN NotFound(c, "Todo")
                     ELSE [c EXCEPT
                             !.pc = "ut_put",
                             !.todo = UpdatedTodo(JSONparse(data), title,
                                        description, status, priority, now)])
    /\ UNCHANGED <<kv, uuids, now, hist, deploy>>

\* `await kv.put(todo key, todo)`; return
UpdateTodo_Put(p) ==
  /\ Running(p, "update_todo", "ut_put")
  /\ kv' = KvPut(kv, TodoKey(call[p].login, call[p].todoId),
                 JSONstringifyObject(call[p].todo))
  /\ SetCall(p, Returned(call[p], "ok", [todo |-> call[p].todo]))
  /\ UNCHANGED <<uuids, now, hist, deploy>>

(* ------------------------------ get_todo ------------------------------ *)

\* `await kv.get(todo key)`; throw if falsy; return the parsed todo
GetTodo_Get(p) ==
  \E login \in deploy.logins, todoId \in TodoIdArgs :
    /\ CanStart(p, login)
    /\ LET c == [Begin("get_todo", login) EXCEPT !.todoId = todoId]
           data == KvGet(kv, TodoKey(login, todoId))
       IN SetCall(p, IF ~Truthy(data)
                     THEN NotFound(c, "Todo")
                     ELSE Returned(c, "ok", [todo |-> JSONparse(data)]))
    /\ UNCHANGED <<kv, uuids, now, hist, deploy>>

(* ----------------------------- delete_todo ---------------------------- *)

\* `await kv.get(todo key)`; throw if falsy; parse
DeleteTodo_Get(p) ==
  \E login \in deploy.logins, todoId \in TodoIdArgs :
    /\ CanStart(p, login)
    /\ LET c == [Begin("delete_todo", login) EXCEPT !.todoId = todoId]
           data == KvGet(kv, TodoKey(login, todoId))
       IN SetCall(p, IF ~Truthy(data)
                     THEN NotFound(c, "Todo")
                     ELSE [c EXCEPT !.pc = "dt_delete", !.todo = JSONparse(data)])
    /\ UNCHANGED <<kv, uuids, now, hist, deploy>>

\* `await kv.delete(todo key)`
DeleteTodo_Delete(p) ==
  /\ Running(p, "delete_todo", "dt_delete")
  /\ kv' = KvDelete(kv, TodoKey(call[p].login, call[p].todoId))
  /\ SetCall(p, [call[p] EXCEPT !.pc = "dt_get_list"])
  /\ UNCHANGED <<uuids, now, hist, deploy>>

\* `let todoList = await this.getTodoList(todo.projectId)`
DeleteTodo_GetList(p) ==
  /\ Running(p, "delete_todo", "dt_get_list")
  /\ SetCall(p, [call[p] EXCEPT
       !.pc = "dt_put_list",
       !.list = LoadList(kv, TodoListReadKey(call[p].login,
                                             call[p].todo.projectId))])
  /\ UNCHANGED <<kv, uuids, now, hist, deploy>>

\* `todoList.filter(...); await kv.put(todo list key, todoList)`; return
DeleteTodo_PutList(p) ==
  /\ Running(p, "delete_todo", "dt_put_list")
  /\ LET c == call[p]
     IN /\ kv' = KvPut(kv, TodoListWriteKey(c.login, c.todo.projectId),
                       JSONstringifyArray(FilterOut(c.list, c.todoId)))
        /\ SetCall(p, Returned(c, "ok", [text |-> "deleted"]))
        /\ hist' = [hist EXCEPT !.deletedTodos = @ \cup {c.todoId}]
  /\ UNCHANGED <<uuids, now, deploy>>

(* ----------------------------- list_todos ----------------------------- *)

\* The optional status of list_todos: left out, or supplied when
\* deploy.fields = "filter".
ListStatusArgs ==
  IF deploy.fields = "filter" THEN {NONE, "pending", "completed"} ELSE {NONE}

\* `await kv.get(project key)`; throw if falsy
ListTodos_GetProject(p) ==
  \E login \in deploy.logins, projectId \in ProjectIdArgs,
     status \in ListStatusArgs :
    /\ CanStart(p, login)
    /\ LET c == [Begin("list_todos", login) EXCEPT
                   !.projectId = projectId, !.status = status]
           data == KvGet(kv, ProjectKey(login, projectId))
       IN SetCall(p, IF ~Truthy(data)
                     THEN NotFound(c, "Project")
                     ELSE [c EXCEPT !.pc = "tb_get_list"])
    /\ UNCHANGED <<kv, uuids, now, hist, deploy>>

(* ------------------------------ response ----------------------------- *)

\* The tool's result (or its error) goes back to the client and the request
\* is over.
Respond(p) ==
  /\ call[p].pc = "done"
  /\ SetCall(p, IdleCall)
  /\ UNCHANGED <<kv, uuids, now, hist, deploy>>

(* ------------------------------- crash ------------------------------- *)

\* The handler stops between two of its awaits (the Worker is evicted, or an
\* awaited store call rejects): what it wrote stays, the rest is not done.
Crash(p) ==
  /\ call[p].pc \notin {"idle", "done", "crashed"}
  /\ SetCall(p, [call[p] EXCEPT !.pc = "crashed"])
  /\ UNCHANGED <<kv, uuids, now, hist, deploy>>

\* The client of a request that stopped sends its next request.
Restart(p) ==
  /\ call[p].pc = "crashed"
  /\ SetCall(p, IdleCall)
  /\ UNCHANGED <<kv, uuids, now, hist, deploy>>

(* ------------------------------- clock ------------------------------- *)

\* A millisecond passes between two steps.
Tick ==
  /\ deploy.clock = "runs"
  /\ now < MaxNow
  /\ now' = now + 1
  /\ UNCHANGED <<kv, uuids, call, hist, deploy>>

(* --------------------------- specifications --------------------------- *)

EmptyStore == [k \in {} |-> NULL]

NoHistory ==
  [createdProjects |-> {}, createdTodos |-> {},
   deletedProjects |-> {}, deletedTodos |-> {},
   projects |-> <<>>, owners |-> {}]

\* A fresh namespace behind one of the deployments D.
InitAmong(D) ==
  /\ kv = EmptyStore
  /\ uuids = 0
  /\ now = 0
  /\ call = [p \in Procs |-> IdleCall]
  /\ hist = NoHistory
  /\ deploy \in D

InitWith(d) == InitAmong({d})

\* The handlers that add a record and its id.
Create(p) ==
  \/ CreateProject_PutRecord(p) \/ CreateProject_GetList(p)
  \/ CreateProject_PutList(p)
  \/ CreateTodo_GetProject(p) \/ CreateTodo_PutRecord(p)
  \/ CreateTodo_GetList(p) \/ CreateTodo_PutList(p)

\* The handlers that remove records and ids.
Delete(p) ==
  \/ DeleteProject_GetRecord(p) \/ DeleteProject_GetTodoList(p)
  \/ DeleteProject_DeleteTodo(p) \/ DeleteProject_DeleteRecord(p)
  \/ DeleteProject_DeleteTodoList(p) \/ DeleteProject_GetList(p)
  \/ DeleteProject_PutList(p)
  \/ DeleteTodo_Get(p) \/ DeleteTodo_Delete(p)
  \/ DeleteTodo_GetList(p) \/ DeleteTodo_PutList(p)

\* The handler that rewrites a record in place.
Update(p) == UpdateTodo_Get(p) \/ UpdateTodo_Put(p)

\* The handlers that only read it.
Read(p) ==
  \/ ListProjects_GetList(p) \/ ListProjects_GetRecord(p)
  \/ GetProject_GetRecord(p)
  \/ TodosByProject_GetList(p) \/ TodosByProject_GetTodo(p)
  \/ GetTodo_Get(p)
  \/ ListTodos_GetProject(p)

Next ==
  \E p \in Procs : Create(p) \/ Delete(p) \/ Update(p) \/ Read(p) \/ Respond(p)

\* Only requests that create and delete.
NextRelist == \E p \in Procs : Create(p) \/ Delete(p) \/ Respond(p)

\* Only requests that create.
NextCreate == \E p \in Procs : Create(p) \/ Respond(p)

\* The remote server, one request at a time, any string as an id argument.
RemoteAnyIds ==
  [server |-> "remote", allowed |-> {}, logins |-> {""}, procs |-> {1},
   ids |-> "any", fields |-> "plain", clock |-> "stopped"]

Spec == InitWith(RemoteAnyIds) /\ [][Next]_vars

\* The remote server, one request at a time, id arguments that are ids
\* (returned by a create call, or fresh).
SpecIds == InitWith([RemoteAnyIds EXCEPT !.ids = "ids"]) /\ [][Next]_vars


\* The GitHub logins that sign in to the auth server.
AuthLogins == {"alice", "bob"}

\* The auth server with its allow-list as shipped (empty), or with one
\* login added to it.
AuthAnyIds ==
  {[server |-> "auth", allowed |-> allowed, logins |-> AuthLogins,
    procs |-> {1}, ids |-> "any", fields |-> "plain", clock |-> "stopped"] :
     allowed \in {{}, {"alice"}}}

\* Either server, one request at a time, any string as an id argument.
SpecServers == InitAmong({RemoteAnyIds} \cup AuthAnyIds) /\ [][Next]_vars

\* The remote server with two creating and deleting requests in flight,
\* their handlers interleaved at every await; id arguments that are ids.
SpecConc ==
  InitWith([RemoteAnyIds EXCEPT !.procs = {1, 2}, !.ids = "ids"])
  /\ [][NextRelist]_vars

\* The remote server with two creating requests in flight, their handlers
\* interleaved at every await.
SpecCreate ==
  InitWith([RemoteAnyIds EXCEPT !.procs = {1, 2}, !.ids = "ids"])
  /\ [][NextCreate]_vars

\* Only requests that create, update and read: nothing is deleted.
NextKeep == \E p \in Procs : Create(p) \/ Update(p) \/ Read(p) \/ Respond(p)

\* The remote server, one request at a time, no delete_project and no
\* delete_todo.
SpecKeep == InitWith(RemoteAnyIds) /\ [][NextKeep]_vars

\* The steps of a get_project request.
Watch(p) ==
  \/ GetProject_GetRecord(p)
  \/ TodosByProject_GetList(p) \/ TodosByProject_GetTodo(p)

\* A creating, deleting or updating request on one connection, a get_project
\* request on the other.
NextWatch ==
  \E p \in Procs : \E q \in Procs \ {p} :
    /\ p < q
    /\ Create(p) \/ Delete(p) \/ Update(p) \/ Respond(p) \/ Watch(q) \/ Respond(q)

\* The remote server with two requests in flight, their handlers interleaved
\* at every await: get_project beside the requests that write; id arguments
\* that are ids.
SpecWatch ==
  InitWith([RemoteAnyIds EXCEPT !.procs = {1, 2}, !.ids = "ids"])
  /\ [][NextWatch]_vars

\* The remote server, one request at a time, each optional argument of
\* update_todo supplied or left out.
SpecUpdate ==
  InitWith([RemoteAnyIds EXCEPT !.ids = "ids", !.fields = "update"])
  /\ [][Next]_vars

\* The remote server, one request at a time, list_todos with and without a
\* status, any string as an id argument.
SpecFilter == InitWith([RemoteAnyIds EXCEPT !.fields = "filter"]) /\ [][Next]_vars

\* The auth server with two logins on its allow-list, one request at a time,
\* id arguments that are ids or name the other login.
AuthTwoOwners ==
  [server |-> "auth", allowed |-> AuthLogins, logins |-> AuthLogins,
   procs |-> {1}, ids |-> "owners", fields |-> "plain", clock |-> "stopped"]

\* That auth server, or the remote server (whose getTodoList reads the key
\* that create_todo writes), one request at a time.
SpecOwners ==
  InitAmong({AuthTwoOwners, [RemoteAnyIds EXCEPT !.ids = "ids"]})
  /\ [][Next]_vars

\* The requests, any of which may stop half-way.
NextCrash == Next \/ \E p \in Procs : Crash(p)

\* The remote server, one request at a time, id arguments that are ids; a
\* handler may stop after any of its store calls, and nothing runs after.
SpecCrash == InitWith([RemoteAnyIds EXCEPT !.ids = "ids"]) /\ [][NextCrash]_vars

\* The remote server, one request at a time, each optional argument of
\* create_todo supplied or left out.
SpecDefaults ==
  InitWith([RemoteAnyIds EXCEPT !.ids = "ids", !.fields = "create"])
  /\ [][Next]_vars

\* The requests, and the clock between their steps.
NextClock == Next \/ Tick

\* The remote server, one request at a time, id arguments that are ids, the
\* clock running.
SpecClock ==
  InitWith([RemoteAnyIds EXCEPT !.ids = "ids", !.clock = "runs"])
  /\ [][NextClock]_vars

\* The requests, any of which may stop half-way, and the requests after it.
NextHeal == NextCrash \/ \E p \in Procs : Restart(p)

\* The remote server, one request at a time, id arguments that are ids; a
\* handler may stop after any of its store calls, and requests go on.
SpecHeal == InitWith([RemoteAnyIds EXCEPT !.ids = "ids"]) /\ [][NextHeal]_vars

\* A creating or deleting request on one connection, an update_todo request
\* on the other.
NextRewrite ==
  \E p \in Procs : \E q \in Procs \ {p} :
    /\ p < q
    /\ Create(p) \/ Delete(p) \/ Respond(p) \/ Update(q) \/ Respond(q)

\* The remote server with two requests in flight, their handlers interleaved
\* at every await: update_todo beside the requests that create and delete;
\* id arguments that are ids.
SpecRewrite ==
  InitWith([RemoteAnyIds EXCEPT !.procs = {1, 2}, !.ids = "ids"])
  /\ [][NextRewrite]_vars

\* A creating or update_todo request on one connection, an update_todo
\* request on the other.
NextMerge ==
  \E p \in Procs : \E q \in Procs \ {p} :
    /\ p < q
    /\ Create(p) \/ Update(p) \/ Respond(p) \/ Update(q) \/ Respond(q)

\* The remote server with two requests in flight, their handlers interleaved
\* at every await: update_todo beside creating and update_todo requests, the
\* title and the status each supplied or left out; id arguments that are ids.
SpecMerge ==
  InitWith([RemoteAnyIds EXCEPT !.procs = {1, 2}, !.ids = "ids",
                                !.fields = "merge"])
  /\ [][NextMerge]_vars

(* ------------------------- reading the store -------------------------- *)

\* No handler is between two of its awaits.
Quiet == \A p \in Procs : call[p].pc \in {"idle", "done"}

\* Every string the model uses as a project id, in an argument or in a key.
ProjectIdUniverse ==
  LET pool == {UuidPool[n] : n \in 1..Len(UuidPool)}
  IN pool \cup {FreshId, "list"} \cup {u \o ":todos" : u \in pool}

TodoIdUniverse == {UuidPool[n] : n \in 1..Len(UuidPool)} \cup {FreshId}

ProjectFields == {"id", "name", "description", "createdAt", "updatedAt"}

TodoFields ==
  {"id", "projectId", "title", "description", "status", "priority",
   "createdAt", "updatedAt"}

\* The text is the record of the project with this id.
IsProjectRecord(text, id) ==
  /\ text.json = "object"
  /\ DOMAIN text.fields = ProjectFields
  /\ text.fields.id = id

\* The text is the record of the todo with this id.
IsTodoRecord(text, id) ==
  /\ text.json = "object"
  /\ DOMAIN text.fields = TodoFields
  /\ text.fields.id = id

\* How often id occurs in list.
Occurrences(list, id) == Cardinality({n \in 1..Len(list) : list[n] = id})

InList(list, id) == \E n \in 1..Len(list) : list[n] = id

\* The remote server's index lists as they are stored.
RemoteProjectList == LoadList(kv, RemoteProjectListKey)
RemoteTodoList(projectId) == LoadList(kv, RemoteTodoListKey(projectId))

(* -------------------------------- C1 ---------------------------------- *)

\* C1: remote server, requests one at a time, id arguments that are ids:
\* between requests every id in 'project:list' has a stored project record,
\* and every id in 'project:<P>:todos' has a stored todo record whose
\* projectId is P.
C1_IndexedIdsResolve ==
  Quiet =>
    /\ \A n \in 1..Len(RemoteProjectList) :
         IsProjectRecord(KvGet(kv, RemoteProjectKey(RemoteProjectList[n])),
                         RemoteProjectList[n])
    /\ \A P \in ProjectIdUniverse :
         \A n \in 1..Len(RemoteTodoList(P)) :
           LET text == KvGet(kv, RemoteTodoKey(RemoteTodoList(P)[n]))
           IN /\ IsTodoRecord(text, RemoteTodoList(P)[n])
              /\ text.fields.projectId = P

\* A todo was deleted, and both kinds of index list still hold an id.
C1_Witness ==
  /\ Quiet
  /\ hist.deletedTodos # {}
  /\ Len(RemoteProjectList) > 0
  /\ \E P \in ProjectIdUniverse : Len(RemoteTodoList(P)) > 0

(* -------------------------------- C2 ---------------------------------- *)

\* C2: remote server, requests one at a time, id arguments that are ids:
\* between requests every stored project record's id is in 'project:list'
\* exactly once, and every stored todo record's id is exactly once in the
\* todo list of its own projectId and in no other todo list.
C2_RecordsIndexedOnce ==
  Quiet =>
    /\ \A P \in ProjectIdUniverse :
         Truthy(KvGet(kv, RemoteProjectKey(P)))
         /\ KvGet(kv, RemoteProjectKey(P)).json = "object"
           => Occurrences(RemoteProjectList, P) = 1
    /\ \A T \in TodoIdUniverse :
         Truthy(KvGet(kv, RemoteTodoKey(T))) =>
           LET owner == KvGet(kv, RemoteTodoKey(T)).fields.projectId
           IN /\ Occurrences(RemoteTodoList(owner), T) = 1
              /\ \A P \in ProjectIdUniverse \ {owner} :
                   ~InList(RemoteTodoList(P), T)

\* Two projects and a todo are stored.
C2_Witness ==
  /\ Quiet
  /\ Cardinality({P \in ProjectIdUniverse :
                    Truthy(KvGet(kv, RemoteProjectKey(P)))}) >= 2
  /\ \E T \in TodoIdUniverse : Truthy(KvGet(kv, RemoteTodoKey(T)))

\* Every stored key is one the formulas above look at.
KeysKnown ==
  DOMAIN kv \subseteq
    {RemoteProjectListKey}
    \cup {RemoteProjectKey(P) : P \in ProjectIdUniverse}
    \cup {RemoteTodoListKey(P) : P \in ProjectIdUniverse}
    \cup {RemoteTodoKey(T) : T \in TodoIdUniverse}


(* -------------------------------- C3 ---------------------------------- *)

\* The todos of project P: returned by a create_todo for P that succeeded,
\* and not deleted by a delete_todo that succeeded.
OwnedTodos(P) ==
  {t \in TodoIdUniverse : <<t, P>> \in hist.createdTodos /\ t \notin hist.deletedTodos}

\* request p is delete_project(P) of a created project, and it has returned
DeletedProject(p, P) ==
  /\ call[p].pc = "done"
  /\ call[p].op = "delete_project"
  /\ call[p].res = "ok"
  /\ call[p].projectId = P
  /\ P \in hist.createdProjects

\* C3: remote server, requests one at a time: when delete_project(P) has
\* returned, no todo of P has a record left (get_todo throws NotFound for
\* each), and 'project:<P>:todos' is not stored.
C3_DeleteProjectRemovesTodos ==
  \A p \in Procs, P \in ProjectIdUniverse :
    DeletedProject(p, P) =>
      /\ \A t \in OwnedTodos(P) : ~Truthy(KvGet(kv, RemoteTodoKey(t)))
      /\ RemoteTodoListKey(P) \notin DOMAIN kv

(* ---------------------------- C8 and C9 ------------------------------- *)

\* A project record with this id is stored (remote server).
ProjectStored(projectId) ==
  IsProjectRecord(KvGet(kv, RemoteProjectKey(projectId)), projectId)

\* This step is the first of a call of tool op by request p.
Starts(p, op) == call[p].pc = "idle" /\ call'[p].op = op

\* Request p threw NotFound in this step, and the step wrote nothing.
ThrowsUnwritten(p) ==
  /\ call'[p].pc = "done"
  /\ call'[p].res = "NotFound"
  /\ kv' = kv

\* C8: create_todo with a projectId that no stored project record has throws
\* NotFound and leaves the whole store as it was.
C8_CreateTodoUnknownProject ==
  [][\A p \in Procs :
       Starts(p, "create_todo") /\ ~ProjectStored(call'[p].projectId)
         => ThrowsUnwritten(p)]_vars

\* C9: remote server: get_project, delete_project, create_todo and list_todos
\* with any projectId string that no stored project record has (also 'list'
\* and '<id>:todos') throw NotFound and write nothing; and delete_project
\* deletes or rewrites an index list only for the id of a created project.
C9_NonProjectIdNotFound ==
  [][\A p \in Procs :
       /\ \A op \in {"get_project", "delete_project", "create_todo", "list_todos"} :
            Starts(p, op) /\ ~ProjectStored(call'[p].projectId)
              => ThrowsUnwritten(p)
       /\ call[p].op = "delete_project" /\ call[p].pc # "done"
          /\ call[p].projectId \notin hist.createdProjects
            => /\ KvGet(kv', RemoteProjectListKey) = KvGet(kv, RemoteProjectListKey)
               /\ \A P \in ProjectIdUniverse :
                    KvGet(kv', RemoteTodoListKey(P))
                      = KvGet(kv, RemoteTodoListKey(P))]_vars

(* ---------------------------- C4 and C5 ------------------------------- *)

\* The ids of the todos in a response.
TodoIdsOf(todos) == {todos[n].id : n \in 1..Len(todos)}

\* request p is a list_todos without status filter, or a get_project, of
\* project P, and it has returned
ListedTodos(p, P) ==
  /\ call[p].pc = "done"
  /\ call[p].res = "ok"
  /\ \/ call[p].op = "list_todos" /\ call[p].status = NONE
     \/ call[p].op = "get_project"
  /\ call[p].projectId = P

\* C4: auth server, allow-listed caller, requests one at a time: a todo that
\* create_todo(P, ...) returned is among the todos list_todos(P) and
\* get_project(P) return, until the todo or P is deleted.
C4_CreatedTodoIsListed ==
  deploy.server = "auth" =>
    \A p \in Procs, P \in hist.createdProjects \ hist.deletedProjects :
      ListedTodos(p, P) => OwnedTodos(P) \subseteq TodoIdsOf(call[p].val.todos)

\* C5: auth server, allow-listed caller, requests one at a time: when
\* delete_project(P) has returned, get_todo throws NotFound for every todo
\* of P, and no todo record of the caller with projectId P is stored.
C5_AuthDeleteProjectRemovesTodos ==
  deploy.server = "auth" =>
    \A p \in Procs, P \in ProjectIdUniverse :
      DeletedProject(p, P) =>
        /\ \A t \in OwnedTodos(P) :
             ~Truthy(KvGet(kv, AuthTodoKey(call[p].login, t)))
        /\ \A t \in TodoIdUniverse :
             LET text == KvGet(kv, AuthTodoKey(call[p].login, t))
             IN Truthy(text) => text.fields.projectId # P

(* -------------------------------- C10 --------------------------------- *)

\* The projects whose delete_project has returned.
GoneProjects == hist.createdProjects \cap hist.deletedProjects

\* The project index list of a caller, as stored.
ProjectListOf(store, login) == LoadList(store, ProjectListKey(login))

\* No caller has a record of P or has P in its project list; a get_project(P)
\* that returned threw NotFound, and no list_projects response holds P.
Gone(P) ==
  /\ \A login \in deploy.logins :
       /\ ~Truthy(KvGet(kv, ProjectKey(login, P)))
       /\ ~InList(ProjectListOf(kv, login), P)
  /\ \A p \in Procs :
       call[p].pc = "done" =>
         /\ call[p].op = "get_project" /\ call[p].projectId = P
              => call[p].res = "NotFound"
         /\ call[p].op = "list_projects"
              => \A n \in 1..Len(call[p].val.projects) :
                   call[p].val.projects[n].id # P

\* request p is inside delete_project(P) for a created project P
DeletingProject(p, P) ==
  /\ call[p].op = "delete_project"
  /\ call[p].pc # "done"
  /\ call[p].projectId = P
  /\ P \in hist.createdProjects

\* The ids of a list other than P, in the order of the list.
OthersIn(list, P) == SelectSeq(list, LAMBDA id : id # P)

\* In this step the records of the projects other than P stay as they are.
OtherRecordsKept(P) ==
  \A Q \in hist.createdProjects \ {P}, login \in deploy.logins :
    KvGet(kv', ProjectKey(login, Q)) = KvGet(kv, ProjectKey(login, Q))

\* C10 as stated: once delete_project(P) has returned, P stays gone; and
\* delete_project(P) leaves every other project's record, and its position
\* in the project index list, as they were.
C10_OtherPositionsUnchanged ==
  [][/\ \A P \in GoneProjects' : Gone(P)'
     /\ \A p \in Procs, P \in ProjectIdUniverse :
          DeletingProject(p, P) =>
            /\ OtherRecordsKept(P)
            /\ \A login \in deploy.logins :
                 LET before == ProjectListOf(kv, login)
                     after == ProjectListOf(kv', login)
                 IN \A n \in 1..Len(before) :
                      before[n] # P => n <= Len(after) /\ after[n] = before[n]]_vars

\* C10 as amended: once delete_project(P) has returned, P stays gone
\* (get_project(P) throws NotFound, list_projects does not return it); and
\* delete_project(P) leaves every other project's record, and the order of
\* the other ids in the project index list, as they were.
C10_DeletedProjectStaysGone ==
  [][/\ \A P \in GoneProjects' : Gone(P)'
     /\ \A p \in Procs, P \in ProjectIdUniverse :
          DeletingProject(p, P) =>
            /\ OtherRecordsKept(P)
            /\ \A login \in deploy.logins :
                 OthersIn(ProjectListOf(kv', login), P)
                   = OthersIn(ProjectListOf(kv, login), P)]_vars

\* A project was deleted, a project created after it is still stored, and
\* get_project of the deleted one has been answered.
C10_Witness ==
  /\ "u1" \in GoneProjects
  /\ \E login \in deploy.logins :
       /\ Truthy(KvGet(kv, ProjectKey(login, "u2")))
       /\ InList(ProjectListOf(kv, login), "u2")
  /\ \E p \in Procs :
       /\ call[p].pc = "done"
       /\ call[p].op = "get_project"
       /\ call[p].projectId = "u1"


(* -------------------------------- C6 ---------------------------------- *)

\* A delete_project has started and not returned.
DeleteProjectRunning ==
  \E p \in Procs : call[p].op = "delete_project" /\ call[p].pc # "done"

\* C6: remote server, handlers interleaved at the awaits: whenever no
\* delete_project is in progress, the projectId of every stored todo record
\* is the id of a stored project record.
C6_TodoHasProject ==
  ~DeleteProjectRunning =>
    \A T \in TodoIdUniverse :
      Truthy(KvGet(kv, RemoteTodoKey(T)))
        => ProjectStored(KvGet(kv, RemoteTodoKey(T)).fields.projectId)

(* -------------------------------- C7 ---------------------------------- *)

\* Request q is a call of tool op that returned the new record with this id.
Created(q, op, id) ==
  /\ call[q].pc = "done"
  /\ call[q].op = op
  /\ call[q].res = "ok"
  /\ IF op = "create_todo" THEN call[q].val.todo.id = id
     ELSE call[q].val.project.id = id

\* This step is request p's put of the list it loaded, and it returns.
PutsList(p, op, pc) == Running(p, op, pc) /\ call'[p].pc = "done"

\* C7: remote server: when a create_todo for project P puts the todo list it
\* loaded before another create_todo for P put its own, both have returned
\* success and both todo records are stored, but the stored list holds only
\* the id of the later put.  The same for two create_project calls and
\* 'project:list'.
C7_LostAppend ==
  [][\A p \in Procs : \A q \in Procs \ {p}, id \in TodoIdUniverse :
       /\ ( /\ PutsList(p, "create_todo", "ct_put_list")
            /\ Created(q, "create_todo", id)
            /\ call[q].projectId = call[p].projectId
            /\ ~InList(call[p].list, id) )
          => /\ call'[p].res = "ok"
             /\ InList(LoadList(kv', RemoteTodoListKey(call[p].projectId)),
                       call[p].newId)
             /\ ~InList(LoadList(kv', RemoteTodoListKey(call[p].projectId)), id)
             /\ IsTodoRecord(KvGet(kv', RemoteTodoKey(id)), id)
             /\ IsTodoRecord(KvGet(kv', RemoteTodoKey(call[p].newId)), call[p].newId)
       /\ ( /\ PutsList(p, "create_project", "cp_put_list")
            /\ Created(q, "create_project", id)
            /\ ~InList(call[p].list, id) )
          => /\ call'[p].res = "ok"
             /\ InList(LoadList(kv', RemoteProjectListKey), call[p].newId)
             /\ ~InList(LoadList(kv', RemoteProjectListKey), id)
             /\ IsProjectRecord(KvGet(kv', RemoteProjectKey(id)), id)
             /\ IsProjectRecord(KvGet(kv', RemoteProjectKey(call[p].newId)),
                                call[p].newId)]_vars

\* Two create_todo calls for one project have both returned success, both
\* todo records are stored, and only one of the ids is in the todo list.
C7_Witness ==
  \E p \in Procs : \E q \in Procs \ {p}, a \in TodoIdUniverse, b \in TodoIdUniverse :
    /\ Created(p, "create_todo", a)
    /\ Created(q, "create_todo", b)
    /\ call[p].projectId = call[q].projectId
    /\ IsTodoRecord(KvGet(kv, RemoteTodoKey(a)), a)
    /\ IsTodoRecord(KvGet(kv, RemoteTodoKey(b)), b)
    /\ InList(RemoteTodoList(call[p].projectId), a)
    /\ ~InList(RemoteTodoList(call[p].projectId), b)

(* -------------------------------- C11 --------------------------------- *)

\* request p is a call of tool op that returned without throwing
ReturnedOk(p, op) ==
  /\ call[p].pc = "done"
  /\ call[p].op = op
  /\ call[p].res = "ok"

\* C11: remote server, requests one at a time, nothing deleted: list_projects
\* returns the projects that the create_project calls returned, each once,
\* in the order in which they were created.
C11_ListProjectsInCreationOrder ==
  \A p \in Procs :
    call[p].pc = "done" /\ call[p].op = "list_projects" =>
      /\ call[p].res = "ok"
      /\ call[p].val.projects = hist.projects
      /\ \A m \in 1..Len(hist.projects) : \A n \in 1..Len(hist.projects) :
           m # n => hist.projects[m].id # hist.projects[n].id

\* list_projects has returned two projects, and a todo was created.
C11_Witness ==
  \E p \in Procs :
    /\ ReturnedOk(p, "list_projects")
    /\ Len(call[p].val.projects) = 2
    /\ hist.createdTodos # {}

(* -------------------------------- C12 --------------------------------- *)

\* A delete_project(P) has started: it is in flight or answered, or it has
\* returned before.
DeleteStarted(P) ==
  \/ P \in hist.deletedProjects
  \/ \E q \in Procs : call[q].op = "delete_project" /\ call[q].projectId = P

\* The record that create_project returned for the project with id P.
ReturnedProject(P) ==
  hist.projects[CHOOSE n \in 1..Len(hist.projects) : hist.projects[n].id = P]

\* request p is inside get_project, between two of its awaits
GetProjectRunning(p) ==
  call[p].op = "get_project" /\ call[p].pc \notin {"idle", "done"}

\* C12: remote server, handlers interleaved at the awaits: a get_project(P)
\* that starts after create_project returned P and before any
\* delete_project(P) started does not throw, and the project it returns is
\* the record create_project returned, whatever else ran or runs meanwhile.
C12_GetProjectReturnsCreated ==
  [][\A p \in Procs :
       /\ ( /\ Starts(p, "get_project")
            /\ call'[p].projectId \in hist.createdProjects
            /\ ~DeleteStarted(call'[p].projectId) )
          => /\ GetProjectRunning(p)'
             /\ JSONparse(call'[p].data) = ReturnedProject(call'[p].projectId)
       /\ GetProjectRunning(p) /\ call'[p].pc = "done"
          => /\ call'[p].res = "ok"
             /\ call'[p].val.projectData = call[p].data]_vars

\* get_project of a created project has returned it, after a delete_project
\* of another project returned on the other request.
C12_Witness ==
  \E p \in Procs : \E q \in Procs \ {p} :
    /\ ReturnedOk(p, "get_project")
    /\ call[p].projectId \in hist.createdProjects
    /\ JSONparse(call[p].val.projectData) = ReturnedProject(call[p].projectId)
    /\ ReturnedOk(q, "delete_project")
    /\ call[q].projectId \in hist.createdProjects \ {call[p].projectId}

(* -------------------------------- C13 --------------------------------- *)

\* The todo record stored under the id, parsed (remote server).
StoredTodo(store, todoId) == JSONparse(KvGet(store, RemoteTodoKey(todoId)))

\* In this step no key other than this one is put, changed or deleted.
OnlyKeyWritten(key) ==
  /\ DOMAIN kv' \ {key} = DOMAIN kv \ {key}
  /\ \A k \in DOMAIN kv \ {key} : kv'[k] = kv[k]

\* C13: update_todo on a stored todo puts that one key and no other; in the
\* new record title, description, status and priority are the argument where
\* one was supplied and the stored value where none was, id, projectId and
\* createdAt are the stored values, and updatedAt is a reading of the clock;
\* update_todo on an id that is not stored throws NotFound and writes nothing.
C13_UpdateTodoChangesSuppliedFields ==
  [][\A p \in Procs :
       /\ Starts(p, "update_todo") =>
            /\ kv' = kv
            /\ ~Truthy(KvGet(kv, RemoteTodoKey(call'[p].todoId)))
                 => ThrowsUnwritten(p)
       /\ Running(p, "update_todo", "ut_put") /\ call'[p].pc = "done" =>
            LET c == call[p]
                old == StoredTodo(kv, c.todoId)
                new == StoredTodo(kv', c.todoId)
            IN /\ OnlyKeyWritten(RemoteTodoKey(c.todoId))
               /\ IsTodoRecord(KvGet(kv', RemoteTodoKey(c.todoId)), c.todoId)
               /\ new.title = IF c.title = NONE THEN old.title ELSE c.title
               /\ new.description =
                    IF c.description = NONE THEN old.description ELSE c.description
               /\ new.status = IF c.status = NONE THEN old.status ELSE c.status
               /\ new.priority = IF c.priority = NONE THEN old.priority ELSE c.priority
               /\ new.id = old.id
               /\ new.projectId = old.projectId
               /\ new.createdAt = old.createdAt
               /\ new.updatedAt \in old.updatedAt..now
               /\ call'[p].res = "ok"
               /\ call'[p].val.todo = new]_vars

\* update_todo with only a status has returned: the todo is completed and
\* still has the title and the priority of an earlier update_todo.
C13_Witness ==
  \E p \in Procs :
    /\ ReturnedOk(p, "update_todo")
    /\ call[p].status = "completed"
    /\ call[p].title = NONE /\ call[p].description = NONE /\ call[p].priority = NONE
    /\ StoredTodo(kv, call[p].todoId).status = "completed"
    /\ StoredTodo(kv, call[p].todoId).title = "Edit copy"
    /\ StoredTodo(kv, call[p].todoId).priority = "high"

(* -------------------------------- C14 --------------------------------- *)

\* The ids of the stored todos of project P that have this status (any
\* status when none is given), in the order in which they were created: ids
\* are handed out in the order of the pool.
StoredTodoIds(P, status) ==
  SelectSeq(UuidPool,
            LAMBDA t : /\ Truthy(KvGet(kv, RemoteTodoKey(t)))
                       /\ StoredTodo(kv, t).projectId = P
                       /\ status = NONE \/ StoredTodo(kv, t).status = status)

\* C14: remote server, requests one at a time: list_todos(P, s) of a stored
\* project P returns the stored todos of P with status s (all of them when
\* no status is given), in creation order; for a projectId that no stored
\* project record has it throws NotFound.
C14_ListTodosFiltered ==
  \A p \in Procs :
    call[p].pc = "done" /\ call[p].op = "list_todos" =>
      IF ProjectStored(call[p].projectId)
      THEN LET ids == StoredTodoIds(call[p].projectId, call[p].status)
           IN /\ call[p].res = "ok"
              /\ call[p].val.todos = [n \in 1..Len(ids) |-> StoredTodo(kv, ids[n])]
      ELSE call[p].res = "NotFound"

(* -------------------------------- C15 --------------------------------- *)

\* The projectId that create_todo stored in the todo it returned.
OwnerOf(todoId) ==
  CHOOSE P \in ProjectIdUniverse : <<todoId, P>> \in hist.createdTodos

\* C15: remote server, requests one at a time: delete_todo of a stored todo
\* deletes the todo's key and nothing else, then puts the todo list of the
\* todo's own projectId without the id, the other ids in their order, and
\* nothing else; a delete_todo of an id that was deleted before throws
\* NotFound and leaves the store as it is.
C15_DeleteTodoTwice ==
  [][\A p \in Procs :
       /\ Starts(p, "delete_todo") =>
            /\ kv' = kv
            /\ call'[p].todoId \in hist.deletedTodos => ThrowsUnwritten(p)
       /\ Running(p, "delete_todo", "dt_delete") =>
            /\ OnlyKeyWritten(RemoteTodoKey(call[p].todoId))
            /\ RemoteTodoKey(call[p].todoId) \notin DOMAIN kv'
       /\ Running(p, "delete_todo", "dt_get_list") => kv' = kv
       /\ Running(p, "delete_todo", "dt_put_list") =>
            LET key == RemoteTodoListKey(OwnerOf(call[p].todoId))
            IN /\ OnlyKeyWritten(key)
               /\ LoadList(kv', key) = OthersIn(LoadList(kv, key), call[p].todoId)
               /\ RemoteTodoKey(call[p].todoId) \notin DOMAIN kv'
               /\ call'[p].pc = "done"
               /\ call'[p].res = "ok"]_vars

\* The second delete_todo of a todo has thrown NotFound, and the todo list
\* the first one rewrote still holds another id.
C15_Witness ==
  \E p \in Procs :
    /\ call[p].pc = "done"
    /\ call[p].op = "delete_todo"
    /\ call[p].res = "NotFound"
    /\ call[p].todoId \in hist.deletedTodos
    /\ Len(RemoteTodoList(OwnerOf(call[p].todoId))) > 0

(* -------------------------------- C16 --------------------------------- *)

\* Every key the auth server builds for a login, over the ids of the model.
KeysOf(login) ==
  LET pool == {UuidPool[n] : n \in 1..Len(UuidPool)}
      ids == pool \cup {FreshId} \cup ForeignIds(pool)
  IN {AuthProjectListKey(login)}
     \cup {AuthProjectKey(login, id) : id \in ids}
     \cup {AuthTodoListReadKey(login, id) : id \in ids}
     \cup {AuthTodoListWriteKey(login, id) : id \in ids}
     \cup {AuthTodoListDeleteKey(login, id) : id \in ids}
     \cup {AuthTodoKey(login, id) : id \in ids}

\* The ids of the projects and todos that create calls of this login returned.
Owned(h, login) == {t[1] : t \in {o \in h.owners : o[2] = login}}

\* The ids of the records in the response of a call that returned.
IdsReturned(c) ==
  IF c.op = "create_project" THEN {c.val.project.id}
  ELSE IF c.op = "list_projects"
    THEN {c.val.projects[n].id : n \in 1..Len(c.val.projects)}
  ELSE IF c.op = "get_project"
    THEN {JSONparse(c.val.projectData).id} \cup TodoIdsOf(c.val.todos)
  ELSE IF c.op = "list_todos" THEN TodoIdsOf(c.val.todos)
  ELSE IF c.op \in {"create_todo", "update_todo", "get_todo"} THEN {c.val.todo.id}
  ELSE {}

\* C16: auth server, two allow-listed logins, requests one at a time: a step
\* of a call by one login changes no key of the other login and only keys
\* of its own; a response holds only records that the caller's own create
\* calls returned; and get_project, get_todo and list_todos with an id that
\* a create call of the other login returned throw NotFound.
C16_OwnersIsolated ==
  [][\A p \in Procs :
       deploy.server = "auth" /\ call'[p] # call[p] =>
         LET U == call'[p].login
             c == call'[p]
         IN /\ \A k \in DOMAIN kv \cup DOMAIN kv' :
                 KvGet(kv', k) # KvGet(kv, k) =>
                   /\ k \in KeysOf(U)
                   /\ \A V \in deploy.logins \ {U} : k \notin KeysOf(V)
            /\ c.pc = "done" /\ c.res = "ok"
                 => IdsReturned(c) \subseteq Owned(hist', U)
            /\ \A V \in deploy.logins \ {U} :
                 /\ Starts(p, "get_project") \/ Starts(p, "list_todos")
                 /\ c.projectId \in Owned(hist, V)
                 => ThrowsUnwritten(p)
            /\ \A V \in deploy.logins \ {U} :
                 Starts(p, "get_todo") /\ c.todoId \in Owned(hist, V)
                   => ThrowsUnwritten(p)]_vars

\* Both logins have a project; get_project by one of them with the id of
\* the other's project has thrown NotFound, and that project is stored.
C16_Witness ==
  \E p \in Procs : \E V \in deploy.logins \ {call[p].login} :
    /\ deploy.server = "auth"
    /\ call[p].pc = "done"
    /\ call[p].op = "get_project"
    /\ call[p].res = "NotFound"
    /\ call[p].projectId \in Owned(hist, V)
    /\ Truthy(KvGet(kv, AuthProjectKey(V, call[p].projectId)))
    /\ Owned(hist, call[p].login) # {}

(* ----------------------------- C17 and C18 ---------------------------- *)

\* request p stopped inside a call of tool op
Crashed(p, op) == call[p].pc = "crashed" /\ call[p].op = op

\* The stored todo records whose projectId has no stored project record.
OrphanTodos ==
  {T \in TodoIdUniverse :
     /\ Truthy(KvGet(kv, RemoteTodoKey(T)))
     /\ ~ProjectStored(StoredTodo(kv, T).projectId)}

\* The stored project records whose id is not in 'project:list'.
UnreferencedProjects ==
  {P \in ProjectIdUniverse : ProjectStored(P) /\ ~InList(RemoteProjectList, P)}

\* The stored todo records whose id is not in the todo list of their own
\* projectId.
UnreferencedTodos ==
  {T \in TodoIdUniverse :
     /\ Truthy(KvGet(kv, RemoteTodoKey(T)))
     /\ ~InList(RemoteTodoList(StoredTodo(kv, T).projectId), T)}

\* C17: remote server, requests one at a time, store consistent before: when
\* delete_project stops after any of its store calls, no stored todo record
\* has a projectId without a stored project record, and every stored record
\* is in its index list: all that is left over is ids in index lists whose
\* record is gone.
C17_DeleteProjectCrashLeavesNoOrphan ==
  \A p \in Procs :
    Crashed(p, "delete_project") =>
      /\ OrphanTodos = {}
      /\ UnreferencedProjects = {}
      /\ UnreferencedTodos = {}

\* delete_project of a project with a todo stopped after it deleted the
\* project record: the id is still in 'project:list', the todo list still
\* holds the id of the deleted todo.
C17_Witness ==
  \E p \in Procs :
    /\ Crashed(p, "delete_project")
    /\ ~ProjectStored(call[p].projectId)
    /\ InList(RemoteProjectList, call[p].projectId)
    /\ Len(RemoteTodoList(call[p].projectId)) > 0

\* C18: remote server, requests one at a time: when create_project,
\* create_todo, delete_todo or delete_project stops after any of its store
\* calls, every stored project record is in 'project:list' and every stored
\* todo record is in the todo list of its projectId.
C18_CrashLeavesNoUnreferencedRecord ==
  \A p \in Procs :
    \A op \in {"create_project", "create_todo", "delete_todo", "delete_project"} :
      Crashed(p, op) => UnreferencedProjects = {} /\ UnreferencedTodos = {}

(* -------------------------------- C19 --------------------------------- *)

\* C19: the todo that a create_todo returned, which is also the todo stored
\* under its id, has status 'pending', the priority that was supplied or
\* 'medium', the description that was supplied or '', and the projectId
\* that was supplied.
C19_CreateTodoDefaults ==
  \A p \in Procs :
    ReturnedOk(p, "create_todo") =>
      LET c == call[p]
          todo == c.val.todo
      IN /\ todo.status = "pending"
         /\ todo.priority = IF c.priority = NONE THEN "medium" ELSE c.priority
         /\ todo.description = IF c.description = NONE THEN "" ELSE c.description
         /\ todo.projectId = c.projectId
         /\ todo.title = c.title
         /\ KvGet(kv, RemoteTodoKey(todo.id)) = JSONstringifyObject(todo)

\* A create_todo with a description and a priority has returned after one
\* that had neither.
C19_Witness ==
  \E p \in Procs : \E T \in TodoIdUniverse :
    /\ ReturnedOk(p, "create_todo")
    /\ call[p].description = "draft"
    /\ call[p].priority = "high"
    /\ Truthy(KvGet(kv, RemoteTodoKey(T)))
    /\ StoredTodo(kv, T).description = ""
    /\ StoredTodo(kv, T).priority = "medium"

(* -------------------------------- C20 --------------------------------- *)

\* C20: when update_todo has returned, the todo stored under the id has an
\* updatedAt that is later than its createdAt, whatever the clock read.
C20_UpdatedAfterCreated ==
  \A p \in Procs :
    ReturnedOk(p, "update_todo") =>
      StoredTodo(kv, call[p].todoId).updatedAt
        > StoredTodo(kv, call[p].todoId).createdAt

(* -------------------------------- C21 --------------------------------- *)

\* The ids in the stored todo list of P whose todo record is stored.
ListedStoredTodos(P) ==
  {T \in TodoIdUniverse :
     InList(RemoteTodoList(P), T) /\ Truthy(KvGet(kv, RemoteTodoKey(T)))}

\* C21: remote server, requests one at a time: delete_project of a stored
\* project deletes the listed todo records first, then the todo list key,
\* then the project record, then rewrites 'project:list': when the todo
\* list key goes no listed todo record is left, when the project record
\* goes the todo list key is gone, and when 'project:list' is rewritten the
\* project record is gone.
C21_DeleteProjectOrder ==
  [][\A p \in Procs, P \in ProjectIdUniverse :
       DeletingProject(p, P) =>
         /\ ( /\ RemoteTodoListKey(P) \in DOMAIN kv
              /\ RemoteTodoListKey(P) \notin DOMAIN kv' )
            => ListedStoredTodos(P) = {}
         /\ ProjectStored(P) /\ ~ProjectStored(P)'
            => RemoteTodoListKey(P) \notin DOMAIN kv
         /\ KvGet(kv', RemoteProjectListKey) # KvGet(kv, RemoteProjectListKey)
            => /\ ~ProjectStored(P)
               /\ RemoteTodoListKey(P) \notin DOMAIN kv
               /\ ~InList(RemoteProjectList', P)]_vars

(* -------------------------------- C22 --------------------------------- *)

\* The stored project records of the ids of 'project:list', in its order.
PresentProjects ==
  LET present == SelectSeq(RemoteProjectList,
                           LAMBDA id : Truthy(KvGet(kv, RemoteProjectKey(id))))
  IN [n \in 1..Len(present) |-> JSONparse(KvGet(kv, RemoteProjectKey(present[n])))]

\* The stored todo records of the ids of the todo list of P, in its order.
PresentTodos(P) ==
  LET present == SelectSeq(RemoteTodoList(P),
                           LAMBDA id : Truthy(KvGet(kv, RemoteTodoKey(id))))
  IN [n \in 1..Len(present) |-> StoredTodo(kv, present[n])]

\* request p returns from a call of tool op in this step
Returns(p, op) ==
  call[p].pc \notin {"done", "crashed"} /\ call'[p].pc = "done" /\ call'[p].op = op

\* C22: remote server, requests one at a time, index lists that may hold
\* ids without a record: list_projects does not throw and returns the
\* stored records of the ids of 'project:list' in list order; get_project
\* and list_todos of a stored project do not throw and return the stored
\* todo records of the ids of the project's todo list in list order; none
\* of their steps writes to the store.
C22_SelfHealingRead ==
  [][\A p \in Procs :
       /\ \A op \in {"list_projects", "get_project", "list_todos"} :
            (Starts(p, op) \/ (call[p].op = op /\ call'[p] # call[p])) => kv' = kv
       /\ Returns(p, "list_projects") =>
            /\ call'[p].res = "ok"
            /\ call'[p].val.projects = PresentProjects
       /\ \A op \in {"get_project", "list_todos"} :
            Returns(p, op) =>
              /\ ProjectStored(call'[p].projectId) <=> call'[p].res = "ok"
              /\ call'[p].res = "ok" =>
                   call'[p].val.todos =
                     FilterStatus(PresentTodos(call'[p].projectId),
                                  call'[p].status)]_vars

\* list_projects has returned a project while 'project:list' also holds an
\* id whose record is gone.
C22_Witness ==
  \E p \in Procs :
    /\ ReturnedOk(p, "list_projects")
    /\ Len(call[p].val.projects) > 0
    /\ Len(call[p].val.projects) < Len(RemoteProjectList)

(* -------------------------------- C23 --------------------------------- *)

\* The todos whose delete_todo has returned, and the todos that create_todo
\* returned for a project whose delete_project has returned.
DeletedTodos ==
  hist.deletedTodos
  \cup {T \in TodoIdUniverse :
          \E P \in GoneProjects : <<T, P>> \in hist.createdTodos}

\* C23: remote server, handlers interleaved at the awaits: once delete_todo
\* of a todo, or delete_project of its project, has returned, no record is
\* stored under the todo's id any more, also when an update_todo that read
\* the record before puts it afterwards.
C23_DeletedTodoStaysDeleted ==
  \A T \in DeletedTodos : ~Truthy(KvGet(kv, RemoteTodoKey(T)))

(* -------------------------------- C24 --------------------------------- *)

\* The optional fields that an update_todo call supplied.
SuppliedFields(c) ==
  {f \in {"title", "description", "status", "priority"} : c[f] # NONE}

\* C24: remote server, handlers interleaved at the awaits: when two
\* update_todo calls on one todo supply disjoint sets of fields and both have
\* returned, the stored todo carries every value either of them supplied.
C24_DisjointUpdatesBothKept ==
  \A p \in Procs : \A q \in Procs \ {p} :
    ( /\ ReturnedOk(p, "update_todo")
      /\ ReturnedOk(q, "update_todo")
      /\ call[p].todoId = call[q].todoId
      /\ SuppliedFields(call[p]) # {}
      /\ SuppliedFields(call[q]) # {}
      /\ SuppliedFields(call[p]) \cap SuppliedFields(call[q]) = {} )
    => \A f \in SuppliedFields(call[p]) :
         StoredTodo(kv, call[p].todoId)[f] = call[p][f]

(* -------------------------------- C25 --------------------------------- *)

\* Request slot p takes a step of a tool handler (a store call or a throw).
HandlerStep(p) == call'[p] # call[p] /\ call'[p].pc # "idle"

\* C25: auth server: the tools exist only for a login in ALLOWED_USERNAMES.
\* Every step of a tool handler, and so every read and every write of the
\* store, belongs to a request of an allow-listed login; with the allow-list
\* empty, as shipped, no request runs and the store never changes.
C25_ToolsOnlyForAllowedLogins ==
  [][deploy.server = "auth" =>
       /\ \A p \in Procs : HandlerStep(p) => call'[p].login \in deploy.allowed
       /\ kv' # kv =>
            \E p \in Procs :
              HandlerStep(p) /\ call'[p].login \in deploy.allowed
       /\ deploy.allowed = {} => kv' = kv /\ call' = call]_vars

\* alice is allow-listed and bob, who also signs in, is not: a tool call by
\* alice has returned and the store holds her records, and nothing of bob's.
C25_Witness ==
  /\ deploy.server = "auth"
  /\ deploy.allowed = {"alice"}
  /\ "bob" \in deploy.logins
  /\ \E p \in Procs : ReturnedOk(p, "create_todo") /\ call[p].login = "alice"
  /\ kv # EmptyStore
  /\ \A o \in hist.owners : o[2] = "alice"

====
